---- MODULE Spec2Model ----
(***************************************************************************)
(* Voice calendar agent: the turn processor (app/routers/audio.py), the    *)
(* dialog controller (_next_prompt) and the rule-first / LLM-fallback      *)
(* field extraction (app/utils/nlp.py), as a state machine over the        *)
(* session store.                                                          *)
(***************************************************************************)
EXTENDS Integers, Sequences, FiniteSets, TLC

VARIABLES
  conversation_states,  \* audio.py:23, session id -> session state
  last,                 \* the latest turn: its inputs, locals and response
  awaiting,             \* the turns suspended at `await speak_text` (line 275)
  call,                 \* a function applied on its own: its argument and result
  attempts              \* session id -> booking attempts made since the session
                        \* state now (or last) in the store was created

vars == <<conversation_states, last, awaiting, call, attempts>>

(***************************************************************************)
(* Bounds                                                                  *)
(***************************************************************************)
\* Requests that may be handled while a turn awaits the synthesis.
MaxOverlap == 1
\* The booking attempts of one session state are counted up to MaxCounted.
MaxCounted == 2
\* The moments handed to _ensure_future lie between MaxPastDays days before
\* today and MaxAheadDays days after it.  Within these bounds no 29 February
\* lies between a moment and the same moment a year later.
MaxPastDays == 400
MaxAheadDays == 7

(***************************************************************************)
(* Python values                                                           *)
(***************************************************************************)
\* Python's None, among slot values that are otherwise strings.
None == "<None>"

\* Python truthiness of a slot value: None and "" are falsy.
Truthy(v) == v # None /\ v # ""

\* a or b
Or(a, b) == IF Truthy(a) THEN a ELSE b

(***************************************************************************)
(* Text helpers                                                            *)
(***************************************************************************)
UpperAlpha == "ABCDEFGHIJKLMNOPQRSTUVWXYZ"
LowerAlpha == "abcdefghijklmnopqrstuvwxyz"

Char(s, i) == SubSeq(s, i, i)

LowerChar(c) ==
  IF \E i \in 1..Len(UpperAlpha) : Char(UpperAlpha, i) = c
  THEN Char(LowerAlpha, CHOOSE i \in 1..Len(UpperAlpha) : Char(UpperAlpha, i) = c)
  ELSE c

\* str.lower()
RECURSIVE Lower(_)
Lower(s) ==
  IF Len(s) = 0 THEN ""
  ELSE LowerChar(Char(s, 1)) \o Lower(SubSeq(s, 2, Len(s)))

\* str.strip(), whitespace being the space character
RECURSIVE LStrip(_)
LStrip(s) ==
  IF Len(s) > 0 /\ Char(s, 1) = " " THEN LStrip(SubSeq(s, 2, Len(s))) ELSE s

RECURSIVE RStrip(_)
RStrip(s) ==
  IF Len(s) > 0 /\ Char(s, Len(s)) = " " THEN RStrip(SubSeq(s, 1, Len(s) - 1)) ELSE s

Strip(s) == RStrip(LStrip(s))

\* re.sub(r"\s+", " ", s): runs of spaces become one space
RECURSIVE CollapseSpaces(_)
CollapseSpaces(s) ==
  IF Len(s) < 2 THEN s
  ELSE IF Char(s, 1) = " " /\ Char(s, 2) = " "
       THEN CollapseSpaces(SubSeq(s, 2, Len(s)))
       ELSE Char(s, 1) \o CollapseSpaces(SubSeq(s, 2, Len(s)))

\* audio.py _normalise_text
NormaliseText(s) == CollapseSpaces(Strip(s))

\* Python's  w in t  on strings
Contains(t, w) ==
  \E i \in 1..(Len(t) - Len(w) + 1) : SubSeq(t, i, i + Len(w) - 1) = w

(***************************************************************************)
(* nlp.py: turn classification helpers                                     *)
(***************************************************************************)
FILLERS ==
  {"ok", "okay", "okay thanks", "thanks", "thank you", "yep", "yeah", "alright",
   "hmm", "mm", "mmm", "please continue", "go on"}

AFFIRMATIVE_WORDS ==
  {"yes", "yeah", "yep", "correct", "that's right", "confirm",
   "please do", "go ahead", "sure", "yup"}

NEGATIVE_WORDS ==
  {"no", "nope", "nah", "incorrect", "that's wrong", "don't", "do not"}

is_affirmative(text) ==
  LET t == Strip(Lower(text)) IN \E w \in AFFIRMATIVE_WORDS : Contains(t, w)

is_negative(text) ==
  LET t == Strip(Lower(text)) IN \E w \in NEGATIVE_WORDS : Contains(t, w)

is_filler(text) == Strip(Lower(text)) \in FILLERS

(***************************************************************************)
(* The clock: _now() and _today_00().  Moments are minutes counted from    *)
(* today 00:00, dates are days counted from today.                         *)
(***************************************************************************)
\* today is a Wednesday (datetime.date.weekday() = 2), the 4th of the month
TodayWeekday == 2
TodayDayOfMonth == 4
\* _now() is today 10:00
NowMinutes == 600

MinutesPerDay == 1440
DaysPerYear == 365

Digits == "0123456789"

\* f"{n:02d}" for 0 <= n <= 99
Two(n) == Char(Digits, (n \div 10) + 1) \o Char(Digits, (n % 10) + 1)

\* datetime.date.isoformat() of today + d days, within the month
IsoDate(d) == "2026-11-" \o Two(TodayDayOfMonth + d)

WEEKDAY_TO_IDX ==
  [w \in {"monday", "tuesday", "wednesday", "thursday", "friday", "saturday", "sunday"} |->
     CASE w = "monday" -> 0 [] w = "tuesday" -> 1 [] w = "wednesday" -> 2
       [] w = "thursday" -> 3 [] w = "friday" -> 4 [] w = "saturday" -> 5
       [] w = "sunday" -> 6]

(***************************************************************************)
(* Utterances.  A transcript is its raw text together with what the        *)
(* regular expressions of nlp.py match on it (obtained by running the      *)
(* expressions on the text): the e-mail of _extract_email, the groups of   *)
(* the weekday and time patterns, the name and reason captures, and the    *)
(* moments the dateparser library may return for it.                       *)
(***************************************************************************)
NoWeekday == [m |-> FALSE, mod |-> "", day |-> ""]
Weekday(mod, day) == [m |-> TRUE, mod |-> mod, day |-> day]
NoTime == [m |-> FALSE, hh |-> 0, mm |-> 0, ap |-> ""]
Time(hh, mm, ap) == [m |-> TRUE, hh |-> hh, mm |-> mm, ap |-> ap]
\* dateparser found nothing / found the moment t
NoDt == <<>>
Dt(t) == <<t>>

Utt(raw, email, wd, tm, dp, name, reason) ==
  [raw |-> raw, email |-> email, wd |-> wd, tm |-> tm, dp |-> dp,
   name |-> name, reason |-> reason]

Plain(raw) == Utt(raw, None, NoWeekday, NoTime, {NoDt}, None, None)

Utterances ==
  { Plain(""),
    Plain("Yes"),
    Plain("yeah"),
    Plain("incorrect"),
    Plain("no"),
    Plain("  Okay   thanks "),
    Utt("my name is ali khan", None, NoWeekday, NoTime, {NoDt}, "Ali Khan", None),
    Utt("ali at gmail dot com", "ali@gmail.com", NoWeekday, NoTime, {NoDt}, None, None),
    Utt("friday at 2 pm", None, Weekday("", "friday"), Time(2, 0, "pm"), {NoDt}, None, None),
    Utt("next monday", None, Weekday("next", "monday"), NoTime, {NoDt}, None, None),
    Utt("noon", None, NoWeekday, NoTime, {NoDt, Dt(720)}, None, None),
    Utt("for a check up", None, NoWeekday, NoTime, {NoDt}, None, "a check up") }

\* Further answers of a caller who gives exactly the value asked for.
AnswerUtterances ==
  { Utt("tomorrow", None, NoWeekday, NoTime, {NoDt}, None, None),
    Utt("3 pm", None, NoWeekday, Time(3, 0, "pm"), {NoDt, Dt(900)}, None, None) }

AllUtterances == Utterances \cup AnswerUtterances

\* The transcripts of the model after _normalise_text, and the helpers'
\* verdicts on each, tabulated.
NormalisedText == [raw \in {u.raw : u \in AllUtterances} |-> NormaliseText(raw)]

Texts == {NormalisedText[raw] : raw \in DOMAIN NormalisedText}

TextVerdict ==
  [t \in Texts |->
     [affirmative |-> is_affirmative(t), negative |-> is_negative(t),
      filler |-> is_filler(t), lower |-> Lower(t)]]

(***************************************************************************)
(* nlp.py: date and time rules                                             *)
(***************************************************************************)
\* lines 129-133: days from base, a day whose weekday is base_weekday, to the
\* date returned for the target weekday
_next_weekday_AlwaysIncludesToday(base_weekday, target_idx, include_today) ==
  (target_idx - base_weekday) % 7

_next_weekday(base_weekday, target_idx, include_today) ==
  LET delta == (target_idx - base_weekday) % 7
  IN IF delta = 0 /\ ~include_today THEN 7 ELSE delta

\* lines 143-163: the date, in days from base, of a match wd of
\* "this/next/coming <weekday>" or of a plain weekday
WeekdayDate(base_weekday, wd) ==
  IF wd.mod # ""
  THEN IF wd.mod = "this"
       THEN LET d == _next_weekday(base_weekday, WEEKDAY_TO_IDX[wd.day], TRUE)
            IN IF d < 0 THEN d + 7 ELSE d
       ELSE _next_weekday(base_weekday, WEEKDAY_TO_IDX[wd.day], FALSE)
  ELSE _next_weekday(base_weekday, WEEKDAY_TO_IDX[wd.day], TRUE)

\* a date as <<days from today>>, or <<>> for None
_compute_relative_weekday(u) ==
  LET t == TextVerdict[NormalisedText[u.raw]].lower IN
  IF u.wd.m THEN <<WeekdayDate(TodayWeekday, u.wd)>>
  ELSE IF Contains(t, "tomorrow") THEN <<1>>
  ELSE IF Contains(t, "today") THEN <<0>>
  ELSE <<>>

\* lines 183-188 and 192-196: the time of a match tm of "hh:mm [am|pm]" or of
\* "hh am|pm" (mm = 0)
TimeOfMatch(tm) ==
  LET h0 == IF tm.ap # "" /\ tm.hh = 12 THEN 0 ELSE tm.hh
      hh == IF tm.ap = "pm" THEN h0 + 12 ELSE h0
  IN Two(hh) \o ":" \o Two(tm.mm)

_parse_time_component(u) ==
  LET t == TextVerdict[NormalisedText[u.raw]].lower IN
  IF Contains(t, "noon") THEN "12:00"
  ELSE IF Contains(t, "midnight") THEN "00:00"
  ELSE IF u.tm.m THEN TimeOfMatch(u.tm)
  ELSE None

_ensure_future(dt) ==
  IF dt > NowMinutes THEN dt
  ELSE IF (NowMinutes - dt) \div MinutesPerDay < 7 THEN dt + 7 * MinutesPerDay
  ELSE dt + DaysPerYear * MinutesPerDay

\* lines 238-243: the date and the time of a dateparser answer dt
DateTimeOfParsed(dt, time_str) ==
  <<IsoDate(dt \div MinutesPerDay),
    IF ~Truthy(time_str) /\ ((dt % MinutesPerDay) \div 60 # 0 \/ dt % 60 # 0)
    THEN Two((dt % MinutesPerDay) \div 60) \o ":" \o Two(dt % 60) ELSE time_str>>

\* lines 219-244, given the relative weekday and the time component
DateTimeOf(date_val, time_str, dp) ==
  IF date_val # <<>> THEN <<IsoDate(date_val[1]), time_str>>
  ELSE IF dp = NoDt THEN <<None, time_str>>
  ELSE DateTimeOfParsed(_ensure_future(dp[1]), time_str)

\* <<date_str, time_str>>; dp is what dateparser returned for the text
_parse_date_time(u, dp) ==
  DateTimeOf(_compute_relative_weekday(u), _parse_time_component(u), dp)

(***************************************************************************)
(* nlp.py: extraction                                                      *)
(***************************************************************************)
Slots == {"patient_name", "patient_email", "appointment_date", "appointment_time", "reason"}

NoFields == [k \in Slots |-> None]

\* _parse_date_time tabulated over the utterances and dateparser's answers
DateTimeRule == [u \in AllUtterances |-> [dp \in u.dp |-> _parse_date_time(u, dp)]]

\* the mapping of the rules, given the date and time <<date_str, time_str>>
RuleFields(u, captured, dtm) ==
  [patient_name |-> IF ~Truthy(captured.patient_name) THEN u.name ELSE None,
   patient_email |-> u.email,
   appointment_date |-> dtm[1],
   appointment_time |-> dtm[2],
   reason |-> IF ~Truthy(captured.reason) THEN u.reason ELSE None]

extract_fields_with_rules(u, captured, dp) == RuleFields(u, captured, DateTimeRule[u][dp])

\* What the chat completion may answer: a failure of the call (or output that
\* is no JSON object), or a JSON object of the five keys.
LlmFailure == [ok |-> FALSE, data |-> NoFields]
LlmAnswer(d) == [ok |-> TRUE, data |-> d]

LlmOutcomes ==
  { LlmFailure,
    LlmAnswer(NoFields),
    LlmAnswer([NoFields EXCEPT !.patient_name = "Ali Khan", !.patient_email = "",
                               !.reason = "a check up"]),
    LlmAnswer([NoFields EXCEPT !.patient_email = "bob@example.com",
                               !.appointment_date = "friday",
                               !.appointment_time = "14:00"]) }

need_llm(fields) ==
  \E k \in {"patient_email", "appointment_date", "appointment_time"} : fields[k] = None

\* [raised, fields]: raised when the capability call throws
LlmFallback(fields, llm) ==
  IF ~need_llm(fields) THEN [raised |-> FALSE, fields |-> fields]
  ELSE IF ~llm.ok THEN [raised |-> TRUE, fields |-> NoFields]
  ELSE [raised |-> FALSE, fields |-> [k \in Slots |-> Or(fields[k], llm.data[k])]]

extract_fields_with_llm(u, captured, dp, llm) ==
  LlmFallback(extract_fields_with_rules(u, captured, dp), llm)

\* line 244: the time booked when none was captured
DefaultTime == "09:00"

(***************************************************************************)
(* audio.py: session store                                                 *)
(***************************************************************************)
SessionIds == {"s1"}

Steps ==
  {"greeting", "ask_name", "ask_email", "confirm_email", "ask_date", "ask_time",
   "confirm_datetime", "ask_reason", "confirm"}

\* the state _get_session_state creates for an unknown session id
NewSession ==
  [step |-> "greeting", captured |-> NoFields,
   email_confirmed |-> FALSE, datetime_confirmed |-> FALSE]

\* the state _get_session_state returns
_get_session_state(store, session_id) ==
  IF session_id \in DOMAIN store THEN store[session_id] ELSE NewSession

\* store with session_id bound to st
Put(store, session_id, st) ==
  [k \in DOMAIN store \cup {session_id} |-> IF k = session_id THEN st ELSE store[k]]

\* conversation_states.pop(session_id, None)
Pop(store, session_id) == [k \in DOMAIN store \ {session_id} |-> store[k]]

(***************************************************************************)
(* audio.py: rendering for prompts.  Only whether the rendering raises is  *)
(* modelled: _friendly_datetime converts the parts of the date and time    *)
(* with int() and builds a datetime from them.                             *)
(***************************************************************************)
IsDigit(c) == \E i \in 1..Len(Digits) : Char(Digits, i) = c

DigitVal(c) == (CHOOSE i \in 1..Len(Digits) : Char(Digits, i) = c) - 1

\* "YYYY-MM-DD" of digits (the model's dates are valid days of the month)
IsIsoDate(s) ==
  /\ Len(s) = 10
  /\ Char(s, 5) = "-" /\ Char(s, 8) = "-"
  /\ \A i \in {1, 2, 3, 4, 6, 7, 9, 10} : IsDigit(Char(s, i))

\* "HH:MM" of digits with hour < 24 and minute < 60
IsClock(s) ==
  /\ Len(s) = 5
  /\ Char(s, 3) = ":"
  /\ \A i \in {1, 2, 4, 5} : IsDigit(Char(s, i))
  /\ DigitVal(Char(s, 1)) * 10 + DigitVal(Char(s, 2)) < 24
  /\ DigitVal(Char(s, 4)) * 10 + DigitVal(Char(s, 5)) < 60

\* minutes since 00:00 of an "HH:MM"
ClockMinutes(s) ==
  (DigitVal(Char(s, 1)) * 10 + DigitVal(Char(s, 2))) * 60
  + DigitVal(Char(s, 4)) * 10 + DigitVal(Char(s, 5))

\* the following day of an ISO date, within the month
NextDay(d) == SubSeq(d, 1, 8) \o Two(DigitVal(Char(d, 9)) * 10 + DigitVal(Char(d, 10)) + 1)

\* _friendly_datetime(date_iso, time_24) raises ValueError
FriendlyDatetimeRaises(date_iso, time_24) ==
  ~IsIsoDate(date_iso) \/ (Truthy(time_24) /\ ~IsClock(time_24))

(***************************************************************************)
(* audio.py: _next_prompt, the dialog controller.  Each stage is one `if`  *)
(* of the cascade and hands the state on to the next stage when it does    *)
(* not return.  The result is the state as left, the prompt returned and   *)
(* whether the call raised.                                                *)
(***************************************************************************)
Prompt(st, text) == [state |-> st, text |-> text, raised |-> FALSE]
Raised(st) == [state |-> st, text |-> <<>>, raised |-> TRUE]

P_GREETING == <<"Hello! I can help you book an appointment. Could I take your full name, please?">>
P_NAME == <<"Could I take your full name, please?">>
P_EMAIL == <<"Thanks. What is your email address?">>
P_CONFIRM_EMAIL(email) == <<"I heard {spelled}. Is that correct?", email>>
P_DATE == <<"Great. What date would you like? You can say {examples}.">>
P_TIME == <<"What time would you prefer? You can say '2 pm' or '14:30'.">>
P_CONFIRM_DATETIME(d, t) == <<"I heard {spoken}. Is that correct?", d, t>>
P_REASON == <<"Finally, what is the reason for your visit?">>
P_CONFIRM(c) ==
  <<"Perfect. I've got {name} with email {email}, on {date} at {time} for {reason}. Shall I book this now?",
    c.patient_name, c.patient_email, c.appointment_date, c.appointment_time, c.reason>>

\* lines 160-161
NP_Fallback(st) == Prompt([st EXCEPT !.step = "ask_name"], P_NAME)

\* lines 153-158
NP_Confirm(st) ==
  IF st.step = "confirm" THEN Prompt(st, P_CONFIRM(st.captured)) ELSE NP_Fallback(st)

\* lines 148-151
NP_Reason(st) ==
  IF st.step = "ask_reason"
  THEN IF ~Truthy(st.captured.reason) THEN Prompt(st, P_REASON)
       ELSE NP_Confirm([st EXCEPT !.step = "confirm"])
  ELSE NP_Confirm(st)

\* A date stage that goes on to the reason as soon as a date and a time are
\* there, confirmed or not.
NP_Date_SkipsConfirmation(st) ==
  IF st.step \in {"ask_date", "ask_time", "confirm_datetime"}
  THEN IF ~Truthy(st.captured.appointment_date) /\ ~Truthy(st.captured.appointment_time)
       THEN Prompt([st EXCEPT !.step = "ask_date"], P_DATE)
       ELSE IF Truthy(st.captured.appointment_date) /\ ~Truthy(st.captured.appointment_time)
       THEN Prompt([st EXCEPT !.step = "ask_time"], P_TIME)
       ELSE NP_Reason([st EXCEPT !.step = "ask_reason"])
  ELSE NP_Reason(st)

\* lines 133-146
NP_Date(st) ==
  LET d == st.captured.appointment_date
      t == st.captured.appointment_time
  IN IF st.step \in {"ask_date", "ask_time", "confirm_datetime"}
     THEN IF ~Truthy(d) /\ ~Truthy(t) THEN Prompt([st EXCEPT !.step = "ask_date"], P_DATE)
          ELSE IF Truthy(d) /\ ~Truthy(t) THEN Prompt([st EXCEPT !.step = "ask_time"], P_TIME)
          ELSE IF Truthy(d) /\ Truthy(t) /\ ~st.datetime_confirmed
          THEN IF FriendlyDatetimeRaises(d, t)
               THEN Raised([st EXCEPT !.step = "confirm_datetime"])
               ELSE Prompt([st EXCEPT !.step = "confirm_datetime"], P_CONFIRM_DATETIME(d, t))
          ELSE IF Truthy(d) /\ Truthy(t) /\ st.datetime_confirmed
          THEN NP_Reason([st EXCEPT !.step = "ask_reason"])
          ELSE NP_Reason(st)
     ELSE NP_Reason(st)

\* An e-mail stage that misspells the step it stops at.
NP_Email_Misspelt(st) ==
  IF st.step \in {"ask_email", "confirm_email"}
  THEN IF ~Truthy(st.captured.patient_email)
       THEN Prompt([st EXCEPT !.step = "ask_mail"], P_EMAIL)
       ELSE IF ~st.email_confirmed
       THEN Prompt([st EXCEPT !.step = "confirm_email"],
                   P_CONFIRM_EMAIL(st.captured.patient_email))
       ELSE NP_Date([st EXCEPT !.step = "ask_date"])
  ELSE NP_Date(st)

\* lines 123-131
NP_Email(st) ==
  IF st.step \in {"ask_email", "confirm_email"}
  THEN IF ~Truthy(st.captured.patient_email)
       THEN Prompt([st EXCEPT !.step = "ask_email"], P_EMAIL)
       ELSE IF ~st.email_confirmed
       THEN Prompt([st EXCEPT !.step = "confirm_email"],
                   P_CONFIRM_EMAIL(st.captured.patient_email))
       ELSE NP_Date([st EXCEPT !.step = "ask_date"])
  ELSE NP_Date(st)

\* lines 118-121
NP_Name(st) ==
  IF st.step = "ask_name"
  THEN IF ~Truthy(st.captured.patient_name) THEN Prompt(st, P_NAME)
       ELSE NP_Email([st EXCEPT !.step = "ask_email"])
  ELSE NP_Email(st)

_next_prompt(st) ==
  IF st.step = "greeting" THEN Prompt([st EXCEPT !.step = "ask_name"], P_GREETING)
  ELSE NP_Name(st)

(***************************************************************************)
(* audio.py: process_audio, the turn processor                             *)
(***************************************************************************)
\* line 194
ExpectingValue(step) ==
  step \in {"ask_email", "confirm_email", "ask_date", "ask_time", "confirm_datetime",
            "ask_reason"}

\* The branch of lines 189-215 a turn takes.
Classify(st, init, user_text) ==
  IF init \/ st.step = "greeting" THEN "init"
  ELSE IF ExpectingValue(st.step) /\ TextVerdict[user_text].filler THEN "filler"
  ELSE IF st.step \in {"confirm_email", "confirm_datetime"}
  THEN IF TextVerdict[user_text].affirmative THEN "confirmation_yes"
       ELSE IF TextVerdict[user_text].negative THEN "confirmation_no"
       ELSE "ambiguous_confirmation"
  ELSE "value"

\* A filler reply that runs the cascade again from its first step.
FillerReply_FromTheTop(st) == _next_prompt([st EXCEPT !.step = "ask_name"])

\* line 196: a filler turn only re-issues the prompt
FillerReply(st) == _next_prompt(st)

\* A confirmation of the e-mail that does not take yes for an answer.
ConfirmEmail_IgnoresYes(st, user_text) ==
  IF TextVerdict[user_text].affirmative THEN st
  ELSE IF TextVerdict[user_text].negative
  THEN [st EXCEPT !.email_confirmed = FALSE, !.captured.patient_email = None,
                  !.step = "ask_email"]
  ELSE st

\* lines 198-204
ConfirmEmail(st, user_text) ==
  IF TextVerdict[user_text].affirmative THEN [st EXCEPT !.email_confirmed = TRUE]
  ELSE IF TextVerdict[user_text].negative
  THEN [st EXCEPT !.email_confirmed = FALSE, !.captured.patient_email = None,
                  !.step = "ask_email"]
  ELSE st

\* A negative answer that clears the date and keeps the time.
ConfirmDatetime_KeepsTime(st, user_text) ==
  IF TextVerdict[user_text].affirmative THEN [st EXCEPT !.datetime_confirmed = TRUE]
  ELSE IF TextVerdict[user_text].negative
  THEN [st EXCEPT !.datetime_confirmed = FALSE, !.captured.appointment_date = None,
                  !.step = "ask_date"]
  ELSE st

\* lines 206-213
ConfirmDatetime(st, user_text) ==
  IF TextVerdict[user_text].affirmative THEN [st EXCEPT !.datetime_confirmed = TRUE]
  ELSE IF TextVerdict[user_text].negative
  THEN [st EXCEPT !.datetime_confirmed = FALSE, !.captured.appointment_date = None,
                  !.captured.appointment_time = None, !.step = "ask_date"]
  ELSE st

\* A merge that leaves out the test `if v`.
MergeFields_Unconditional(c, fields) == [k \in Slots |-> fields[k]]

\* A merge whose test is `if v is not None`, so that "" is written too.
MergeFields_NotNone(c, fields) ==
  [k \in Slots |-> IF fields[k] # None THEN fields[k] ELSE c[k]]

\* lines 221-223
MergeFields(c, fields) == [k \in Slots |-> IF Truthy(fields[k]) THEN fields[k] ELSE c[k]]

\* lines 225-227
EmailCaptured(st) ==
  IF Truthy(st.captured.patient_email) /\ st.step = "ask_email"
  THEN [st EXCEPT !.email_confirmed = FALSE, !.step = "confirm_email"]
  ELSE st

\* A change test that asks for both the date and the time to differ.
DatetimeChanged_BothDiffer(st, before_date, before_time) ==
  LET after_date == st.captured.appointment_date
      after_time == st.captured.appointment_time
  IN IF (Truthy(after_date) /\ Truthy(after_time))
        /\ (before_date # after_date /\ before_time # after_time)
     THEN [st EXCEPT !.datetime_confirmed = FALSE, !.step = "confirm_datetime"]
     ELSE st

\* lines 229-233
DatetimeChanged(st, before_date, before_time) ==
  LET after_date == st.captured.appointment_date
      after_time == st.captured.appointment_time
  IN IF (Truthy(after_date) /\ Truthy(after_time))
        /\ (before_date # after_date \/ before_time # after_time)
     THEN [st EXCEPT !.datetime_confirmed = FALSE, !.step = "confirm_datetime"]
     ELSE st

\* A value turn that falls back on the result of the rules when the call
\* raised.
ApplyExtraction_RulesOnFailure(st, ex) ==
  DatetimeChanged(
    EmailCaptured([st EXCEPT !.captured =
                     MergeFields(st.captured, IF ex.raised THEN ex.rules ELSE ex.fields)]),
    st.captured.appointment_date, st.captured.appointment_time)

\* lines 216-235, given what extract_fields_with_llm did
ApplyExtraction(st, ex) ==
  IF ex.raised THEN st
  ELSE DatetimeChanged(
         EmailCaptured([st EXCEPT !.captured = MergeFields(st.captured, ex.fields)]),
         st.captured.appointment_date, st.captured.appointment_time)

\* A trigger that leaves out the test of the utterance.
BookingTriggered_AnyUtterance(st, user_text) == st.step = "confirm"

\* line 241
BookingTriggered(st, user_text) == st.step = "confirm" /\ TextVerdict[user_text].affirmative

DateTime(d, m) == [date |-> d, minutes |-> m]

\* An addition of minutes that keeps the date.
PlusMinutes_SameDay(dt, n) == DateTime(dt.date, (dt.minutes + n) % MinutesPerDay)

\* dt + datetime.timedelta(minutes=n), n < a day
PlusMinutes(dt, n) ==
  IF dt.minutes + n >= MinutesPerDay
  THEN DateTime(NextDay(dt.date), dt.minutes + n - MinutesPerDay)
  ELSE DateTime(dt.date, dt.minutes + n)

AppointmentMinutes == 30

NoPayload == <<>>

\* lines 243-256: the payload for the calendar, or NoPayload when building it raises
BookingPayload(c) ==
  LET date_str == c.appointment_date
      time_str == Or(c.appointment_time, DefaultTime)
  IN IF ~Truthy(date_str) THEN NoPayload
     ELSE IF ~IsIsoDate(date_str) \/ ~IsClock(time_str) THEN NoPayload
     ELSE LET dt == DateTime(date_str, ClockMinutes(time_str))
          IN <<[patient_name |-> c.patient_name, patient_email |-> c.patient_email,
                reason |-> c.reason, start |-> dt,
                end |-> PlusMinutes(dt, AppointmentMinutes)]>>

CalendarOutcomes == {"success", "error", "throws"}

R_BOOKED == <<"Your appointment is booked. You'll receive a confirmation by email shortly. Anything else I can help with?">>
R_FAILED == <<"I couldn't complete the booking just now. Would you like me to try again?">>

\* lines 242-273: the attempt, given the payload (NoPayload when building it
\* raised) and the calendar's answer; booking_complete is set either way
Attempt(payload, cal) ==
  IF payload = NoPayload
  THEN [attempt |-> TRUE, payload |-> NoPayload, outcome |-> "raised",
        response_text |-> R_FAILED, session_ended |-> "0", booking_complete |-> TRUE]
  ELSE [attempt |-> TRUE, payload |-> payload, outcome |-> cal,
        response_text |-> IF cal = "success" THEN R_BOOKED ELSE R_FAILED,
        session_ended |-> IF cal = "success" THEN "1" ELSE "0",
        booking_complete |-> TRUE]

\* A booking block that completes the booking only on success, so that a
\* failed attempt keeps the session.
Booking_KeepsSessionOnFailure(st, user_text, prompt, cal) ==
  IF ~BookingTriggered(st, user_text)
  THEN [attempt |-> FALSE, payload |-> NoPayload, outcome |-> "none",
        response_text |-> prompt, session_ended |-> "0", booking_complete |-> FALSE]
  ELSE [Attempt(BookingPayload(st.captured), cal)
          EXCEPT !.booking_complete = (@ /\ cal = "success")]

\* lines 240-273 on the state _next_prompt left: what the booking block did.
Booking(st, user_text, prompt, cal) ==
  IF ~BookingTriggered(st, user_text)
  THEN [attempt |-> FALSE, payload |-> NoPayload, outcome |-> "none",
        response_text |-> prompt, session_ended |-> "0", booking_complete |-> FALSE]
  ELSE Attempt(BookingPayload(st.captured), cal)

\* what a turn's extraction did: the rule result, whether the fallback was
\* needed, whether the call raised, and the mapping returned
NoExtraction ==
  [called |-> FALSE, rules |-> NoFields, llm_called |-> FALSE, raised |-> FALSE,
   fields |-> NoFields]

ExtractionOf(rules, e) ==
  [called |-> TRUE, rules |-> rules, llm_called |-> need_llm(rules),
   raised |-> e.raised, fields |-> e.fields]

Extraction(u, captured, dp, llm) ==
  ExtractionOf(extract_fields_with_rules(u, captured, dp),
               extract_fields_with_llm(u, captured, dp, llm))

\* Lines 183-237: the turn up to the prompt.  The session state is mutated in
\* place, so `state` is also what the store holds from here on.
\*   before      the session state _get_session_state returned
\*   state       the session state object after the prompt was computed
\*   failed      "none", or the call that raised out of the handler
\*   can_book    whether the turn goes on to the booking block (line 239)
Upto(session_id, created, class, before, user_text, ex, np, failed, can_book) ==
  [session_id |-> session_id, created |-> created, class |-> class,
   before |-> before, user_text |-> user_text, extraction |-> ex,
   state |-> np.state, prompt |-> np.text, failed |-> failed, can_book |-> can_book]

\* a turn that computed its prompt np from the session state `before`
Prompted(session_id, created, class, before, user_text, ex, np, can_book) ==
  Upto(session_id, created, class, before, user_text, ex, np,
       IF np.raised THEN "prompt" ELSE "none", can_book /\ ~np.raised)

\* lines 198-235: the session state after a confirmation or a value turn
Handled(state, user_text, ex) ==
  IF state.step = "confirm_email" THEN ConfirmEmail(state, user_text)
  ELSE IF state.step = "confirm_datetime" THEN ConfirmDatetime(state, user_text)
  ELSE ApplyExtraction(state, ex)

\* lines 198-237 of a turn that is neither an init turn nor a filler
Answered(session_id, created, class, state, user_text, ex) ==
  Prompted(session_id, created, class, state, user_text, ex,
           _next_prompt(Handled(state, user_text, ex)), TRUE)

\* lines 187-237 of the turn whose branch is `class`
Branch(session_id, created, state, is_init_turn, stt_ok, user_text, class, u, dp, llm) ==
  IF is_init_turn
  THEN Prompted(session_id, created, class, state, user_text, NoExtraction,
                _next_prompt(state), FALSE)
  ELSE IF ~stt_ok
  THEN Upto(session_id, created, "none", state, "", NoExtraction,
            Prompt(state, <<>>), "transcription", FALSE)
  ELSE IF class = "filler"
  THEN Prompted(session_id, created, class, state, user_text, NoExtraction,
                FillerReply(state), FALSE)
  ELSE Answered(session_id, created, class, state, user_text,
                IF class = "value" THEN Extraction(u, state.captured, dp, llm)
                ELSE NoExtraction)

\* lines 183-194 on the session state the store returned
Transcribed(session_id, created, state, init, stt_ok, user_text, u, dp, llm) ==
  Branch(session_id, created, state, init \/ state.step = "greeting", stt_ok, user_text,
         Classify(state, init, user_text), u, dp, llm)

TurnToPrompt(store, session_id, init, stt_ok, u, dp, llm) ==
  Transcribed(session_id, session_id \notin DOMAIN store,
              _get_session_state(store, session_id), init, stt_ok,
              IF init \/ _get_session_state(store, session_id).step = "greeting" \/ ~stt_ok
              THEN "" ELSE NormalisedText[u.raw],
              u, dp, llm)

\* the turn t once the booking block answered bk
Finished(t, bk, failed) ==
  [session_id |-> t.session_id, created |-> t.created, class |-> t.class,
   before |-> t.before, user_text |-> t.user_text, extraction |-> t.extraction,
   state |-> t.state, prompt |-> t.prompt,
   booking |-> bk, stored |-> ~bk.booking_complete,
   response_text |-> IF failed = "none" THEN bk.response_text ELSE <<>>,
   failed |-> failed]

\* Lines 239-285: the booking block, the removal of the session and the
\* synthesis of the response.
\*   stored         whether the session is still in conversation_states
\*   response_text  what the turn answers, <<>> when the turn failed
Finish(t, cal, tts_ok) ==
  Finished(t, Booking(t.state, IF t.can_book THEN t.user_text ELSE "", t.prompt, cal),
           IF t.failed # "none" THEN t.failed
           ELSE IF ~tts_ok THEN "synthesis" ELSE "none")

process_audio(store, session_id, init, stt_ok, u, dp, llm, cal, tts_ok) ==
  Finish(TurnToPrompt(store, session_id, init, stt_ok, u, dp, llm), cal, tts_ok)

(***************************************************************************)
(* The state machine: one action per kind of turn, each the whole of       *)
(* process_audio on the branch it names.                                   *)
(***************************************************************************)
NoUtterance == Plain("")
NoLlm == LlmAnswer(NoFields)

\* no session has made a booking attempt
NoAttempts == [id \in SessionIds |-> 0]

\* no function is applied on its own
NoCall == [fn |-> "", arg |-> <<>>, returned |-> FALSE, result |-> <<>>]

NoTurn ==
  Finish(Upto("", FALSE, "start", NewSession, "", NoExtraction,
              Prompt(NewSession, <<>>), "none", FALSE), "success", TRUE)

Init ==
  /\ conversation_states = [k \in {} |-> NewSession]
  /\ last = NoTurn
  /\ awaiting = {}
  /\ call = NoCall
  /\ attempts = NoAttempts

\* A store that keeps the session after a booking attempt.
Stored_NeverRemoves(r) == Put(conversation_states, r.session_id, r.state)

\* The store as the turn r leaves it.
Stored(r) ==
  IF r.stored THEN Put(conversation_states, r.session_id, r.state)
  ELSE Pop(conversation_states, r.session_id)

\* The booking attempts of each session state once the turn r is handled: a
\* state created by _get_session_state (lines 35-48) starts with none, the
\* booking block (lines 241-270) adds one.
Attempted(r) ==
  [attempts EXCEPT ![r.session_id] =
     IF r.booking.attempt
     THEN IF (IF r.created THEN 1 ELSE @ + 1) > MaxCounted THEN MaxCounted
          ELSE (IF r.created THEN 1 ELSE @ + 1)
     ELSE IF r.created THEN 0 ELSE @]

\* The handler's effect on the store, and the turn as observed.
Store(r) ==
  /\ conversation_states' = Stored(r)
  /\ attempts' = Attempted(r)
  /\ last' = r

\* A turn handled with no other request arriving before its response is sent.
Respond(r) == Store(r) /\ UNCHANGED <<awaiting, call>>

\* the calendar and the synthesis are inputs only of the turns that reach them
CalendarChoices(t) ==
  IF t.can_book /\ BookingTriggered(t.state, t.user_text)
     /\ BookingPayload(t.state.captured) # NoPayload
  THEN CalendarOutcomes ELSE {"success"}

SynthesisChoices(t) == IF t.failed = "none" THEN BOOLEAN ELSE {TRUE}

\* the rest of the turn t, for every answer of the collaborators it reaches
Complete(t) ==
  \E cal \in CalendarChoices(t), tts_ok \in SynthesisChoices(t) : Respond(Finish(t, cal, tts_ok))

\* the branch the turn of session_id takes on the utterance u
TurnClass(session_id, init, u) ==
  Classify(_get_session_state(conversation_states, session_id), init, NormalisedText[u.raw])

\* init flag set, tiny upload, or a session at greeting (lines 187-190)
InitTurn ==
  \E session_id \in SessionIds, init \in BOOLEAN :
    /\ TurnClass(session_id, init, NoUtterance) = "init"
    /\ Complete(TurnToPrompt(conversation_states, session_id, init, TRUE, NoUtterance,
                             NoDt, NoLlm))

\* transcribe_with_openai raises (line 192)
TranscriptionFailure ==
  \E session_id \in SessionIds :
    /\ TurnClass(session_id, FALSE, NoUtterance) # "init"
    /\ Complete(TurnToPrompt(conversation_states, session_id, FALSE, FALSE, NoUtterance,
                             NoDt, NoLlm))

\* lines 195-196
FillerTurn ==
  \E session_id \in SessionIds, u \in Utterances :
    /\ TurnClass(session_id, FALSE, u) = "filler"
    /\ Complete(TurnToPrompt(conversation_states, session_id, FALSE, TRUE, u, NoDt, NoLlm))

\* lines 198-213, then the prompt and the booking block
ConfirmationTurn ==
  \E session_id \in SessionIds, u \in Utterances :
    /\ TurnClass(session_id, FALSE, u) \in
         {"confirmation_yes", "confirmation_no", "ambiguous_confirmation"}
    /\ Complete(TurnToPrompt(conversation_states, session_id, FALSE, TRUE, u, NoDt, NoLlm))

\* the answers of the chat completion a value turn can meet: it is called
\* only when the rules left the email, the date or the time empty
LlmChoices(fields) == IF need_llm(fields) THEN LlmOutcomes ELSE {NoLlm}

\* lines 215-235, then the prompt and the booking block
ValueTurn ==
  \E session_id \in SessionIds, u \in Utterances :
    /\ TurnClass(session_id, FALSE, u) = "value"
    /\ \E dp \in u.dp :
         \E llm \in LlmChoices(extract_fields_with_rules(
                       u, _get_session_state(conversation_states, session_id).captured, dp)) :
           Complete(TurnToPrompt(conversation_states, session_id, FALSE, TRUE, u, dp, llm))

(***************************************************************************)
(* Overlapping requests.  process_audio is a coroutine with one suspension  *)
(* point, `await speak_text` (line 275): lines 183-273 run without          *)
(* interruption, and while the synthesis runs in the executor the event     *)
(* loop handles other requests.  After the await the turn reads             *)
(* state["step"] for the X-Agent-State header (line 280) from the dict it   *)
(* got at line 183, which is the dict in the store unless the session was   *)
(* popped since.                                                            *)
(***************************************************************************)
\* a turn suspended at line 275: the step it produced, and whether its
\* `state` is still the dict in the store (if not, the step the dict was
\* left with)
Awaited(r) ==
  [session_id |-> r.session_id, step |-> r.state.step, attached |-> r.stored,
   created |-> r.created, attempt |-> r.booking.attempt,
   frozen |-> IF r.stored THEN "" ELSE r.state.step]

\* line 273 seen from the suspended turns: the dict leaves the store as the
\* popping turn left it
Detach(aw, r) ==
  IF r.stored THEN aw
  ELSE { IF a.attached /\ a.session_id = r.session_id
         THEN [a EXCEPT !.attached = FALSE, !.frozen = r.state.step] ELSE a : a \in aw }

\* line 280: the step a suspended turn reports when it resumes now
HeaderStep(a) ==
  IF a.attached THEN conversation_states[a.session_id].step ELSE a.frozen

\* lines 183-275 of a turn that arrives while others are suspended; the
\* turns of these behaviours are observed through `awaiting` only
Suspend(r) ==
  /\ Cardinality(awaiting) <= MaxOverlap
  /\ conversation_states' = Stored(r)
  /\ attempts' = Attempted(r)
  /\ awaiting' = Detach(awaiting, r) \cup
                   (IF r.failed \in {"none", "synthesis"} THEN {Awaited(r)} ELSE {})
  /\ UNCHANGED <<last, call>>

CompleteOverlapping(t) ==
  \E cal \in CalendarChoices(t), tts_ok \in SynthesisChoices(t) : Suspend(Finish(t, cal, tts_ok))

OverlappingInitTurn ==
  \E session_id \in SessionIds, init \in BOOLEAN :
    /\ TurnClass(session_id, init, NoUtterance) = "init"
    /\ CompleteOverlapping(TurnToPrompt(conversation_states, session_id, init, TRUE,
                                        NoUtterance, NoDt, NoLlm))

OverlappingTranscriptionFailure ==
  \E session_id \in SessionIds :
    /\ TurnClass(session_id, FALSE, NoUtterance) # "init"
    /\ CompleteOverlapping(TurnToPrompt(conversation_states, session_id, FALSE, FALSE,
                                        NoUtterance, NoDt, NoLlm))

OverlappingFillerTurn ==
  \E session_id \in SessionIds, u \in Utterances :
    /\ TurnClass(session_id, FALSE, u) = "filler"
    /\ CompleteOverlapping(TurnToPrompt(conversation_states, session_id, FALSE, TRUE, u,
                                        NoDt, NoLlm))

OverlappingConfirmationTurn ==
  \E session_id \in SessionIds, u \in Utterances :
    /\ TurnClass(session_id, FALSE, u) \in
         {"confirmation_yes", "confirmation_no", "ambiguous_confirmation"}
    /\ CompleteOverlapping(TurnToPrompt(conversation_states, session_id, FALSE, TRUE, u,
                                        NoDt, NoLlm))

OverlappingValueTurn ==
  \E session_id \in SessionIds, u \in Utterances :
    /\ TurnClass(session_id, FALSE, u) = "value"
    /\ \E dp \in u.dp :
         \E llm \in LlmChoices(extract_fields_with_rules(
                       u, _get_session_state(conversation_states, session_id).captured, dp)) :
           CompleteOverlapping(TurnToPrompt(conversation_states, session_id, FALSE, TRUE, u,
                                            dp, llm))

\* lines 275-285: the synthesis is over, the turn builds its headers and returns
Resume ==
  \E a \in awaiting :
    /\ awaiting' = awaiting \ {a}
    /\ UNCHANGED <<conversation_states, last, call, attempts>>

OverlappingNext ==
  \/ OverlappingInitTurn
  \/ OverlappingTranscriptionFailure
  \/ OverlappingFillerTurn
  \/ OverlappingConfirmationTurn
  \/ OverlappingValueTurn
  \/ Resume

OverlappingSpec == Init /\ [][OverlappingNext]_vars

(***************************************************************************)
(* The functions on their own.  The initial state draws a function and an  *)
(* argument for it; each action applies one function as the source         *)
(* computes it and records what it returned.                               *)
(***************************************************************************)
Call(fn, arg) == [fn |-> fn, arg |-> arg, returned |-> FALSE, result |-> <<>>]

Return(result) ==
  /\ call' = [call EXCEPT !.returned = TRUE, !.result = result]
  /\ UNCHANGED <<conversation_states, last, awaiting, attempts>>

\* nlp.py:183 and 191: what the two time patterns match, as their groups.
\*   ([0-1]?\d|2[0-3])\s*:\s*([0-5]\d)\s*(am|pm)?     and     ([0-1]?\d)\s*(am|pm)
Pattern1Matches == {Time(hh, mm, ap) : hh \in 0..23, mm \in 0..59, ap \in {"", "am", "pm"}}
Pattern2Matches == {Time(hh, 0, ap) : hh \in 0..19, ap \in {"am", "pm"}}
TimeMatches == Pattern1Matches \cup Pattern2Matches

\* nlp.py:143 and 158: what the two weekday patterns match, said on each day
\* of the week
WeekdayMatches ==
  {Weekday(mod, day) : mod \in {"", "this", "next", "coming"}, day \in DOMAIN WEEKDAY_TO_IDX}

WeekdayArgs == [base_weekday : 0..6, wd : WeekdayMatches]

\* the moments dateparser may hand to _ensure_future (nlp.py:237), in minutes
\* from today 00:00
ParsedMoments ==
  {d * MinutesPerDay + m : d \in (0 - MaxPastDays)..MaxAheadDays,
                           m \in {0, NowMinutes, NowMinutes + 1, MinutesPerDay - 1}}

\* captured slots a turn may meet at the confirm step, with dates and times
\* as the extractors may have left them
BookingCaptures ==
  [patient_name : {None, "Ali Khan"}, patient_email : {None, "ali@gmail.com"},
   appointment_date : {None, "2026-11-06", "friday"},
   appointment_time : {None, "14:00", "23:45", "25:00"},
   reason : {None, "a check up"}]

BookingArgs == [captured : BookingCaptures, user_text : Texts, cal : CalendarOutcomes]

\* the session state at the confirm step with the captured slots c
AtConfirm(c) ==
  [step |-> "confirm", captured |-> c, email_confirmed |-> TRUE, datetime_confirmed |-> TRUE]

UnitInit ==
  /\ conversation_states = [k \in {} |-> NewSession]
  /\ last = NoTurn
  /\ awaiting = {}
  /\ attempts = NoAttempts
  /\ \/ \E tm \in TimeMatches : call = Call("_parse_time_component", tm)
     \/ \E a \in WeekdayArgs : call = Call("_compute_relative_weekday", a)
     \/ \E dt \in ParsedMoments : call = Call("_ensure_future", dt)
     \/ \E a \in BookingArgs : call = Call("booking", a)

\* nlp.py:183-196 on a match of one of the time patterns
ParseTimeComponent ==
  /\ call.fn = "_parse_time_component" /\ ~call.returned
  /\ Return(TimeOfMatch(call.arg))

\* nlp.py:143-160 on a match of one of the weekday patterns
ComputeRelativeWeekday ==
  /\ call.fn = "_compute_relative_weekday" /\ ~call.returned
  /\ Return(WeekdayDate(call.arg.base_weekday, call.arg.wd))

\* nlp.py:199-207
EnsureFuture ==
  /\ call.fn = "_ensure_future" /\ ~call.returned
  /\ Return(_ensure_future(call.arg))

\* audio.py:240-270 at the confirm step
BookingBlock ==
  /\ call.fn = "booking" /\ ~call.returned
  /\ Return(Booking(AtConfirm(call.arg.captured), call.arg.user_text,
                    P_CONFIRM(call.arg.captured), call.arg.cal))

UnitNext ==
  \/ ParseTimeComponent
  \/ ComputeRelativeWeekday
  \/ EnsureFuture
  \/ BookingBlock

UnitSpec == UnitInit /\ [][UnitNext]_vars

(***************************************************************************)
(* The cooperative caller.  Each request answers the step the session is   *)
(* at with exactly the value asked for, or with "Yes" at a confirmation;   *)
(* the chat completion, when called, returns a mapping.  The caller keeps  *)
(* sending requests and the transcription does not fail forever, hence the *)
(* weak fairness of the two kinds of turn; a turn may still fail on the    *)
(* transcription or on the synthesis.                                      *)
(***************************************************************************)
\* the utterances that answer the prompt of a step
AnswersTo(step) ==
  CASE step = "ask_name" -> {u \in Utterances : u.raw = "my name is ali khan"}
    [] step = "ask_email" -> {u \in Utterances : u.raw = "ali at gmail dot com"}
    [] step = "ask_date" -> {u \in AllUtterances : u.raw \in {"next monday", "tomorrow"}}
    [] step = "ask_time" -> {u \in AllUtterances : u.raw \in {"noon", "3 pm"}}
    [] step = "ask_reason" -> {u \in Utterances : u.raw = "for a check up"}
    [] step \in {"confirm_email", "confirm_datetime", "confirm"} ->
         {u \in Utterances : u.raw = "Yes"}
    [] OTHER -> {}

\* every extraction succeeds: the chat completion, when called, returns a
\* mapping, and finds no value that the utterance does not hold
AnsweringLlm == LlmAnswer(NoFields)

\* the rest of the turn t of a cooperative request (lines 239-285)
CooperativeComplete(t) ==
  \E cal \in CalendarChoices(t), tts_ok \in SynthesisChoices(t) :
    \E r \in {Finish(t, cal, tts_ok)} : Respond(r)

\* the first request of a session (lines 187-190)
CooperativeStart ==
  \E session_id \in SessionIds :
    /\ session_id \notin DOMAIN conversation_states
    /\ \E t \in {TurnToPrompt(conversation_states, session_id, FALSE, TRUE, NoUtterance,
                              NoDt, NoLlm)} : CooperativeComplete(t)

\* a request that answers the step of the session (lines 192-285): the
\* transcript is no filler, so the turn takes lines 198-237
CooperativeAnswer ==
  \E session_id \in DOMAIN conversation_states :
    \E u \in AnswersTo(conversation_states[session_id].step), state \in {conversation_states[session_id]} :
      \E dp \in u.dp, class \in {TurnClass(session_id, FALSE, u)} :
        /\ class \in {"value", "confirmation_yes"}
        /\ \E ex \in {IF class = "value" THEN Extraction(u, state.captured, dp, AnsweringLlm)
                      ELSE NoExtraction} :
             \E h \in {Handled(state, NormalisedText[u.raw], ex)} :
               \E np \in {_next_prompt(h)} :
                 \E t \in {Prompted(session_id, FALSE, class, state, NormalisedText[u.raw],
                                    ex, np, TRUE)} : CooperativeComplete(t)

\* a request whose transcription fails (line 192)
CooperativeTranscriptionFailure ==
  \E session_id \in DOMAIN conversation_states :
    /\ TurnClass(session_id, FALSE, NoUtterance) # "init"
    /\ \E t \in {TurnToPrompt(conversation_states, session_id, FALSE, FALSE, NoUtterance,
                              NoDt, NoLlm)} : CooperativeComplete(t)

CooperativeNext ==
  \/ CooperativeStart
  \/ CooperativeAnswer
  \/ CooperativeTranscriptionFailure

CooperativeSpec ==
  /\ Init
  /\ [][CooperativeNext]_vars
  /\ WF_vars(CooperativeStart)
  /\ WF_vars(CooperativeAnswer)

Next ==
  \/ InitTurn
  \/ TranscriptionFailure
  \/ FillerTurn
  \/ ConfirmationTurn
  \/ ValueTurn

Spec == Init /\ [][Next]_vars

(***************************************************************************)
(* Properties                                                              *)
(***************************************************************************)
Present(v) == Truthy(v)

\* the latest turn reached the calendar
CalendarInvoked == last.booking.attempt /\ last.booking.payload # NoPayload

\* the slots other than those of `ks` are as before the latest turn
OthersUnchanged(ks) ==
  \A k \in Slots \ ks : last.state.captured[k] = last.before.captured[k]

\* C1: whenever the calendar is about to be invoked, all five slots are
\* present and both confirmation flags are true.
C1_BookingHasAllSlotsConfirmed ==
  CalendarInvoked =>
    /\ \A k \in Slots : Present(last.state.captured[k])
    /\ last.state.email_confirmed
    /\ last.state.datetime_confirmed

\* C2: a booking attempt is made only on a turn that is neither an init turn
\* nor a filler turn, whose step is confirm when the booking block is reached
\* and whose utterance is affirmative.
C2_BookingOnlyOnAffirmativeAtConfirm ==
  last.booking.attempt =>
    /\ last.class \notin {"init", "filler", "none", "start"}
    /\ last.state.step = "confirm"
    /\ TextVerdict[last.user_text].affirmative

C2_Witness ==
  /\ CalendarInvoked
  /\ last.before.step = "confirm"
  /\ last.class = "value"

\* C3: after a booking attempt, whatever its outcome, the session is no longer
\* in the store, and the next turn for the same key creates a new session,
\* greets, ends at ask_name with no slot and no confirmation, and books nothing.
C3_SessionEndsWithBookingAttempt ==
  [][ /\ last'.booking.attempt => last'.session_id \notin DOMAIN conversation_states'
      /\ (last.booking.attempt /\ last'.session_id = last.session_id) =>
           /\ last'.created
           /\ last'.class = "init"
           /\ last'.prompt = P_GREETING
           /\ last'.state = [NewSession EXCEPT !.step = "ask_name"]
           /\ conversation_states'[last'.session_id] = last'.state
           /\ ~last'.booking.attempt ]_vars

\* a booking attempt the calendar refused, after which the session is gone
C3_Witness ==
  /\ last.booking.attempt
  /\ last.booking.outcome \in {"error", "throws"}
  /\ last.session_id \notin DOMAIN conversation_states

\* C4: in every session state a confirmation flag is true only while the
\* slots it covers are present.
FlagsCoverSlots(st) ==
  /\ st.email_confirmed => Present(st.captured.patient_email)
  /\ st.datetime_confirmed =>
       Present(st.captured.appointment_date) /\ Present(st.captured.appointment_time)

C4_ConfirmedOnlyWhileSet ==
  /\ \A k \in DOMAIN conversation_states : FlagsCoverSlots(conversation_states[k])
  /\ FlagsCoverSlots(last.state)

C4_Witness ==
  \E k \in DOMAIN conversation_states :
    /\ conversation_states[k].email_confirmed
    /\ conversation_states[k].datetime_confirmed
    /\ last.class = "value"
    /\ Present(last.extraction.fields.reason)

\* C5: a turn that merges an extracted e-mail into the captured slots ends
\* with email_confirmed false, at whichever step it does so.
C5_EmailWriteResetsConfirmation ==
  (/\ last.class = "value"
   /\ ~last.extraction.raised
   /\ Present(last.extraction.fields.patient_email)) =>
    ~last.state.email_confirmed

\* C6: when the date and the time were set and confirmed, a turn whose
\* extraction changes either of them ends with datetime_confirmed false and
\* step confirm_datetime, and makes no booking attempt.
DatetimeChangedByExtraction ==
  /\ last.class = "value"
  /\ Present(last.before.captured.appointment_date)
  /\ Present(last.before.captured.appointment_time)
  /\ last.before.datetime_confirmed
  /\ \/ last.state.captured.appointment_date # last.before.captured.appointment_date
     \/ last.state.captured.appointment_time # last.before.captured.appointment_time

C6_ChangeForcesReconfirmation ==
  DatetimeChangedByExtraction =>
    /\ ~last.state.datetime_confirmed
    /\ last.state.step = "confirm_datetime"
    /\ ~last.booking.attempt

C6_Witness ==
  /\ DatetimeChangedByExtraction
  /\ last.before.step = "confirm"
  /\ last.state.captured.appointment_time = last.before.captured.appointment_time

\* C7: the step of every session in the store is one of the nine steps.
C7_StepInEnum ==
  \A k \in DOMAIN conversation_states : conversation_states[k].step \in Steps

C7_Witness ==
  \E k \in DOMAIN conversation_states :
    /\ conversation_states[k].step = "ask_email"
    /\ last.class = "value"
    /\ last.before.step = "ask_name"

\* C8: a negative answer at confirm_email ends with the e-mail absent,
\* email_confirmed false and step ask_email; at confirm_datetime with the date
\* and the time absent, datetime_confirmed false and step ask_date; the other
\* slots are as before.
C8_NegativeClearsAndAsksAgain ==
  /\ (last.class = "confirmation_no" /\ last.before.step = "confirm_email") =>
       /\ last.state.captured.patient_email = None
       /\ ~last.state.email_confirmed
       /\ last.state.step = "ask_email"
       /\ OthersUnchanged({"patient_email"})
  /\ (last.class = "confirmation_no" /\ last.before.step = "confirm_datetime") =>
       /\ last.state.captured.appointment_date = None
       /\ last.state.captured.appointment_time = None
       /\ ~last.state.datetime_confirmed
       /\ last.state.step = "ask_date"
       /\ OthersUnchanged({"appointment_date", "appointment_time"})

C8_Witness ==
  /\ last.class = "confirmation_no"
  /\ last.before.step = "confirm_datetime"
  /\ Present(last.before.captured.appointment_time)
  /\ last.state.step = "ask_date"

\* C9: at confirm_email (confirm_datetime) a turn whose utterance is one of
\* the affirmative keywords sets email_confirmed (datetime_confirmed) and
\* leaves the five slots unchanged.
SaysAffirmativeKeyword ==
  /\ last.class \notin {"init", "none", "start"}
  /\ TextVerdict[last.user_text].lower \in AFFIRMATIVE_WORDS

C9_AffirmativeKeywordConfirms ==
  /\ (SaysAffirmativeKeyword /\ last.before.step = "confirm_email") =>
       last.state.email_confirmed /\ OthersUnchanged({})
  /\ (SaysAffirmativeKeyword /\ last.before.step = "confirm_datetime") =>
       last.state.datetime_confirmed /\ OthersUnchanged({})

\* C10: a filler turn leaves the slots, the flags and the step as they were,
\* runs no extraction, makes no booking attempt, and answers with the prompt
\* of the current step.
PromptOfStep(st) ==
  CASE st.step = "ask_email" -> P_EMAIL
    [] st.step = "confirm_email" -> P_CONFIRM_EMAIL(st.captured.patient_email)
    [] st.step = "ask_date" -> P_DATE
    [] st.step = "ask_time" -> P_TIME
    [] st.step = "confirm_datetime" ->
         P_CONFIRM_DATETIME(st.captured.appointment_date, st.captured.appointment_time)
    [] st.step = "ask_reason" -> P_REASON
    [] OTHER -> <<>>

C10_FillerChangesNothing ==
  last.class = "filler" =>
    /\ last.state = last.before
    /\ last.session_id \in DOMAIN conversation_states
    /\ conversation_states[last.session_id] = last.before
    /\ ~last.extraction.called
    /\ ~last.booking.attempt
    /\ last.failed = "none" => last.response_text = PromptOfStep(last.before)

C10_Witness ==
  /\ last.class = "filler"
  /\ last.before.step = "confirm_datetime"
  /\ last.failed = "none"
  /\ last.response_text = PromptOfStep(last.before)

\* a value turn whose chat completion call raised
ExtractionRaised == last.class = "value" /\ last.extraction.raised

\* C11: when the chat completion call fails, every slot the rules found in
\* the utterance is merged into the captured slots all the same.
C11_RulesSurviveLlmFailure ==
  ExtractionRaised =>
    \A k \in Slots :
      Present(last.extraction.rules[k]) =>
        last.state.captured[k] = last.extraction.rules[k]

\* C12 as written: a turn whose extraction raised leaves the slots and the
\* flags as they were, computes the prompt from that state, and answers
\* with that prompt.
C12_RaisedTurnReturnsPrompt ==
  (ExtractionRaised /\ last.failed = "none") =>
    /\ last.state.captured = last.before.captured
    /\ last.state.email_confirmed = last.before.email_confirmed
    /\ last.state.datetime_confirmed = last.before.datetime_confirmed
    /\ last.response_text = last.prompt

\* C12, amended: a turn whose extraction raised goes on with the session
\* state exactly as the turn found it: the state it ends with and the prompt
\* it computed are those of _next_prompt on the state found, the raise is no
\* failure of the turn, and the turn answers with that prompt unless it goes
\* on to a booking attempt, which answers with the outcome of the booking.
C12_RaisedExtractionIsNotFatal ==
  ExtractionRaised =>
    /\ last.state.captured = last.before.captured
    /\ last.state.email_confirmed = last.before.email_confirmed
    /\ last.state.datetime_confirmed = last.before.datetime_confirmed
    /\ last.state = _next_prompt(last.before).state
    /\ last.prompt = _next_prompt(last.before).text
    /\ last.failed \in {"none", "synthesis", "prompt"}
    /\ last.failed = "prompt" <=> _next_prompt(last.before).raised
    /\ (last.failed = "none" /\ ~last.booking.attempt) => last.response_text = last.prompt

\* the rules found a date and a time, the call raised, and the turn answered
C12_Witness ==
  /\ ExtractionRaised
  /\ Present(last.extraction.rules.appointment_date)
  /\ Present(last.extraction.rules.appointment_time)
  /\ last.failed = "none"
  /\ last.response_text = last.prompt
  /\ last.session_id \in DOMAIN conversation_states

\* C13: a value turn whose extraction returned writes each present value of
\* the result over the captured slot and leaves the captured value where the
\* result has None or ""; so it never makes a present slot absent, and no
\* captured slot of any session is ever "".
C13_MergeKeepsWhatIsAbsent ==
  /\ (last.class = "value" /\ ~last.extraction.raised) =>
       \A k \in Slots :
         /\ last.state.captured[k] =
              IF last.extraction.fields[k] \notin {None, ""}
              THEN last.extraction.fields[k] ELSE last.before.captured[k]
         /\ Present(last.before.captured[k]) => Present(last.state.captured[k])
  /\ last.class = "value" =>
       \A k \in Slots : Present(last.before.captured[k]) => Present(last.state.captured[k])
  /\ \A id \in DOMAIN conversation_states, k \in Slots :
       conversation_states[id].captured[k] # ""
  /\ \A k \in Slots : last.state.captured[k] # ""

\* a result with an empty e-mail met a captured e-mail, and one slot was
\* overwritten by another value
C13_Witness ==
  /\ last.class = "value" /\ ~last.extraction.raised
  /\ last.extraction.fields.patient_email = ""
  /\ Present(last.before.captured.patient_email)
  /\ \E k \in Slots :
       /\ Present(last.before.captured[k])
       /\ Present(last.extraction.fields[k])
       /\ last.extraction.fields[k] # last.before.captured[k]

\* C14: the step a turn reports in its response (line 280) is the step that
\* turn itself produced, whichever requests for the same session were
\* handled while it awaited the synthesis.
C14_ReportedStepIsOwnStep ==
  \A a \in awaiting : HeaderStep(a) = a.step

\* The cascade of the Dialog Controller: its steps in order, the step at which
\* a call that enters at a given step starts (the first of the entered step's
\* block in _next_prompt), and the precondition of each step.
CascadeOrder ==
  <<"ask_name", "ask_email", "confirm_email", "ask_date", "ask_time", "confirm_datetime",
    "ask_reason", "confirm">>

CascadeStart(step) ==
  CASE step = "ask_name" -> 1
    [] step \in {"ask_email", "confirm_email"} -> 2
    [] step \in {"ask_date", "ask_time", "confirm_datetime"} -> 4
    [] step = "ask_reason" -> 7
    [] step = "confirm" -> 8

PreconditionMet(st, step) ==
  CASE step = "ask_name" -> Present(st.captured.patient_name)
    [] step = "ask_email" -> Present(st.captured.patient_email)
    [] step = "confirm_email" -> st.email_confirmed
    [] step = "ask_date" -> Present(st.captured.appointment_date)
    [] step = "ask_time" -> Present(st.captured.appointment_time)
    [] step = "confirm_datetime" -> st.datetime_confirmed
    [] step = "ask_reason" -> Present(st.captured.reason)
    [] step = "confirm" -> FALSE

FirstUnmet(st) ==
  CascadeOrder[CHOOSE i \in CascadeStart(st.step)..Len(CascadeOrder) :
                 /\ ~PreconditionMet(st, CascadeOrder[i])
                 /\ \A j \in CascadeStart(st.step)..(i - 1) :
                      PreconditionMet(st, CascadeOrder[j])]

PromptOfCascadeStep(st, step) ==
  CASE step = "ask_name" -> P_NAME
    [] step = "confirm" -> P_CONFIRM(st.captured)
    [] OTHER -> PromptOfStep([st EXCEPT !.step = step])

\* the turn called the Dialog Controller from a recognised step and the call
\* returned a prompt
ControllerCalled ==
  /\ last.class \in {"init", "filler", "value", "confirmation_yes", "confirmation_no",
                     "ambiguous_confirmation"}
  /\ last.failed \in {"none", "synthesis"}

\* the session state the turn handed to the Dialog Controller
ControllerEntered ==
  IF last.class \in {"init", "filler"} THEN last.before
  ELSE Handled(last.before, last.user_text, last.extraction)

\* C16: a call of the Dialog Controller from a recognised step ends at the
\* first step of the cascade, from the step it entered on, whose precondition
\* is unmet, changes nothing else of the session state, and returns the
\* prompt of that step.
C16_CascadeStopsAtFirstUnmet ==
  (ControllerCalled /\ ControllerEntered.step \in Steps \ {"greeting"}) =>
    /\ last.state = [ControllerEntered EXCEPT !.step = FirstUnmet(ControllerEntered)]
    /\ last.prompt = PromptOfCascadeStep(ControllerEntered, FirstUnmet(ControllerEntered))

\* C17: at confirm_email or confirm_datetime an utterance that is one of the
\* negative keywords is classified negative, is not classified affirmative,
\* and does not set the confirmation flag of the step.
SaysNegativeKeyword ==
  /\ last.class \notin {"init", "none", "start"}
  /\ TextVerdict[last.user_text].lower \in NEGATIVE_WORDS

C17_NegativeKeywordNeverConfirms ==
  (SaysNegativeKeyword /\ last.before.step \in {"confirm_email", "confirm_datetime"}) =>
    /\ last.class = "confirmation_no"
    /\ ~TextVerdict[last.user_text].affirmative
    /\ last.before.step = "confirm_email" => ~last.state.email_confirmed
    /\ last.before.step = "confirm_datetime" => ~last.state.datetime_confirmed

\* the function fn was applied on its own and returned
Returned(fn) == call.fn = fn /\ call.returned

\* C15: on a booking attempt the calendar receives start = the captured date
\* at the captured time (09:00 when the time is absent), end = start + 30
\* minutes, and the captured name, e-mail and reason; it is invoked whenever
\* the date and the time are well formed; with the date absent it is not
\* invoked and the attempt ends as a failure.
C15_CalendarReceivesPayload ==
  (Returned("booking") /\ call.result.attempt) =>
    /\ ~Present(call.arg.captured.appointment_date) =>
         /\ call.result.payload = NoPayload
         /\ call.result.outcome = "raised"
         /\ call.result.response_text = R_FAILED
         /\ call.result.session_ended = "0"
    /\ (/\ IsIsoDate(call.arg.captured.appointment_date)
        /\ call.arg.captured.appointment_time \in {None, "14:00", "23:45"}) =>
         call.result.payload # NoPayload
    /\ call.result.payload # NoPayload =>
         /\ call.result.payload[1].patient_name = call.arg.captured.patient_name
         /\ call.result.payload[1].patient_email = call.arg.captured.patient_email
         /\ call.result.payload[1].reason = call.arg.captured.reason
         /\ call.result.payload[1].start =
              [date |-> call.arg.captured.appointment_date,
               minutes |-> CASE call.arg.captured.appointment_time = None -> 9 * 60
                             [] call.arg.captured.appointment_time = "14:00" -> 14 * 60
                             [] call.arg.captured.appointment_time = "23:45" -> 23 * 60 + 45]
         /\ call.result.payload[1].end =
              CASE call.arg.captured.appointment_time = None ->
                     [date |-> call.arg.captured.appointment_date, minutes |-> 9 * 60 + 30]
                [] call.arg.captured.appointment_time = "14:00" ->
                     [date |-> call.arg.captured.appointment_date, minutes |-> 14 * 60 + 30]
                [] call.arg.captured.appointment_time = "23:45" ->
                     [date |-> "2026-11-07", minutes |-> 15]

\* an attempt with the time absent reached the calendar with start at 09:00
C15_Witness ==
  /\ Returned("booking") /\ call.result.attempt
  /\ call.arg.captured.appointment_date = "2026-11-06"
  /\ call.arg.captured.appointment_time = None
  /\ call.result.payload # NoPayload
  /\ call.result.payload[1].start = [date |-> "2026-11-06", minutes |-> 540]
  /\ call.result.outcome = "success"

\* C18: the time returned for a match of the time patterns is a valid 24-hour
\* HH:MM, and with am/pm present the hour 12 counts as 0 before 12 is added
\* for pm.
C18_TimeIsValidClock ==
  Returned("_parse_time_component") =>
    /\ IsClock(call.result)
    /\ (call.arg.ap # "" /\ call.arg.hh = 12) =>
         call.result = (IF call.arg.ap = "pm" THEN "12" ELSE "00") \o ":" \o Two(call.arg.mm)

C20_EnsureFutureIsLater ==
  Returned("_ensure_future") =>
    /\ call.arg > NowMinutes => call.result = call.arg
    /\ (call.arg <= NowMinutes /\ NowMinutes - call.arg < 7 * MinutesPerDay) =>
         call.result = call.arg + 7 * MinutesPerDay
    /\ (call.arg <= NowMinutes /\ NowMinutes - call.arg >= 7 * MinutesPerDay) =>
         call.result = call.arg + DaysPerYear * MinutesPerDay
    /\ call.result > NowMinutes

\* C21: a booking attempt is made only on a turn that began at the confirm
\* step; an affirmative utterance given at another step is not taken as the
\* answer to the booking question in the same turn.
C21_BookingOnlyFromConfirm ==
  last.booking.attempt => last.before.step = "confirm"

\* what each step says is still missing
StepMatchesMissing(st) ==
  /\ st.step = "ask_name" => ~Present(st.captured.patient_name)
  /\ st.step = "ask_email" => ~Present(st.captured.patient_email)
  /\ st.step = "confirm_email" => Present(st.captured.patient_email) /\ ~st.email_confirmed
  /\ st.step = "ask_date" =>
       ~Present(st.captured.appointment_date) /\ ~Present(st.captured.appointment_time)
  /\ st.step = "ask_time" =>
       Present(st.captured.appointment_date) /\ ~Present(st.captured.appointment_time)
  /\ st.step = "confirm_datetime" =>
       /\ Present(st.captured.appointment_date) /\ Present(st.captured.appointment_time)
       /\ ~st.datetime_confirmed
  /\ st.step = "ask_reason" => ~Present(st.captured.reason)

\* The call of the Dialog Controller ended in the defensive reset of lines
\* 160-161: it returned at ask_name, and not from the ask_name block, which
\* returns only when entered at ask_name with the name absent.
DefensiveResetTaken ==
  /\ ControllerCalled
  /\ ControllerEntered.step # "greeting"
  /\ last.state.step = "ask_name"
  /\ ~(ControllerEntered.step = "ask_name" /\ ~Present(ControllerEntered.captured.patient_name))

\* C22: at the end of every turn the step of the session matches what is
\* still missing, in the turn's session state and in every stored session,
\* and no call of the Dialog Controller from a recognised step ends in the
\* defensive reset to ask_name.
C22_StepMatchesMissing ==
  /\ last.class # "start" => StepMatchesMissing(last.state)
  /\ \A id \in DOMAIN conversation_states : StepMatchesMissing(conversation_states[id])
  /\ ~DefensiveResetTaken

\* C23: in every session state a turn ends with and in every stored session,
\* step ask_reason or confirm implies that the date and the time are present
\* and datetime_confirmed is true; so a booking attempt never meets a missing
\* date and never uses the default time.
DatetimeSettled(st) ==
  st.step \in {"ask_reason", "confirm"} =>
    /\ Present(st.captured.appointment_date)
    /\ Present(st.captured.appointment_time)
    /\ st.datetime_confirmed

C23_LateStepsHaveDatetime ==
  /\ DatetimeSettled(last.state)
  /\ \A id \in DOMAIN conversation_states : DatetimeSettled(conversation_states[id])
  /\ last.booking.attempt =>
       /\ Present(last.state.captured.appointment_date)
       /\ Present(last.state.captured.appointment_time)
       /\ last.booking.payload # NoPayload =>
            last.booking.payload[1].start.minutes =
              ClockMinutes(last.state.captured.appointment_time)

\* a booking attempt reached the calendar at the captured date and time
C23_Witness ==
  /\ last.booking.attempt
  /\ last.booking.payload # NoPayload
  /\ last.state.step = "confirm"
  /\ last.state.captured.appointment_time = "14:00"
  /\ last.booking.payload[1].start = [date |-> "2026-11-06", minutes |-> 840]

\* C24: whichever way the requests for one session key overlap, a session
\* state, from its creation to its removal from the store, makes at most one
\* booking attempt: the turn that makes it removes the session before any
\* other request runs, so a session in the store has made none, and a
\* request that follows starts a new session and makes no attempt.
C24_OneAttemptPerSession ==
  /\ \A id \in SessionIds : attempts[id] <= 1
  /\ \A id \in DOMAIN conversation_states : attempts[id] = 0
  /\ \A a \in awaiting : a.attempt => ~a.attached /\ ~a.created /\ a.step = "confirm"

\* a turn made a booking attempt and, while it awaits the synthesis, another
\* request for the same session key was handled: it started a new session
C24_Witness ==
  \E a \in awaiting, b \in awaiting :
    /\ a.attempt /\ a.session_id = b.session_id
    /\ b.created /\ ~b.attempt /\ b.step = "ask_name"
    /\ attempts[a.session_id] = 0
    /\ conversation_states[b.session_id].step = "ask_name"

\* C25: a turn that fails on the transcription or on the synthesis leaves
\* the store as it was before the turn (the session absent if the turn found
\* none, the session state it found otherwise) and has made no booking
\* attempt.
C25_FailedTurnHasNoEffect ==
  last.failed \in {"transcription", "synthesis"} =>
    /\ ~last.booking.attempt
    /\ IF last.created THEN last.session_id \notin DOMAIN conversation_states
       ELSE /\ last.session_id \in DOMAIN conversation_states
            /\ conversation_states[last.session_id] = last.before

\* the step of the stored session of the cooperative caller, "" when the
\* store holds none
StoredStep(id) ==
  IF id \in DOMAIN conversation_states THEN conversation_states[id].step ELSE ""

\* the latest turn answered "Yes" at the confirm step with a booking attempt
BookedFromConfirm ==
  /\ last.booking.attempt
  /\ last.before.step = "confirm"
  /\ last.user_text = "Yes"

\* C26: with a cooperative caller and a chat completion that returns, the
\* session always reaches the confirm step again, a session at confirm leads
\* to a booking attempt made by a "Yes" turn at confirm, and the session stays
\* at no step forever.
C26_Progress ==
  \A id \in SessionIds :
    /\ []<>(StoredStep(id) = "confirm")
    /\ (StoredStep(id) = "confirm") ~> BookedFromConfirm
    /\ \A step \in Steps : []<>(StoredStep(id) # step)

\* the caller said "Yes" at confirm and the appointment was booked
C26_Witness ==
  /\ BookedFromConfirm
  /\ last.booking.outcome = "success"
  /\ last.before.captured.patient_name = "Ali Khan"
  /\ last.before.captured.patient_email = "ali@gmail.com"
  /\ last.before.captured.reason = "a check up"
  /\ last.before.email_confirmed /\ last.before.datetime_confirmed

====
